---- MODULE Spec2Model ----
(***************************************************************************)
(* A model of cat-all-files.py: the directory walk, the per-file filter    *)
(* chain of print_file_contents, the accumulators (summary, combine        *)
(* buffer, log file, clipboard) and the interrupt handling of main.        *)
(*                                                                         *)
(* Text is a sequence of one-character strings, so that startswith,        *)
(* suffix, lower, count and the three search modes are computed the way    *)
(* the Python code computes them.  Only ASCII text is modelled, for which  *)
(* the utf-8 decode with errors='replace' changes nothing.                 *)
(***************************************************************************)
EXTENDS Integers, Sequences, FiniteSets, TLC

VARIABLES
  cfg,        \* the parsed arguments, as main passes them on
  fs,         \* the directory tree on disk (a static snapshot)
  pc,         \* position of main / traverse_and_read
  stack,      \* os.walk: directories still to be yielded
  visited,    \* os.walk: paths of the directories yielded so far
  all_files,  \* traverse_and_read: the candidate list
  idx,        \* index in all_files of the candidate of the processing loop
  fpc,        \* position inside print_file_contents for that candidate
  size_bytes, \* print_file_contents: local size_bytes
  contents,   \* print_file_contents: local contents
  confirm,    \* print_file_contents: local confirm, the answer to the prompt
  ops,        \* what print_file_contents has done to the current candidate
  before,     \* the accumulators as they were when print_file_contents was entered
  outcome,    \* how print_file_contents ended, per candidate already handled
  summary,    \* the global summary dictionary
  combined,   \* traverse_and_read: the combine buffer (or None)
  logger,     \* the log file object: "none", "open" or "closed"
  log,        \* what has been written to the log file
  clipboard,  \* every payload handed to pyperclip.copy, in order
  console,    \* the console lines that matter: failures and the final reports
  exit_code,  \* -1 while running, then the exit status of the process
  interrupted_at \* where a KeyboardInterrupt arrived ("" when none did)

vars == <<cfg, fs, pc, stack, visited, all_files, idx, fpc, size_bytes, contents,
          confirm, ops, before, outcome, summary, combined, logger, log, clipboard, console,
          exit_code, interrupted_at>>

----------------------------------------------------------------------------
(* Characters and strings *)

NUL == "NUL"   \* the byte b'\0'
NL == "\n"

None == <<"None">>   \* Python's None; no text holds a character "None"

Uppers == <<"A","B","C","D","E","F","G","H","I","J","K","L","M",
            "N","O","P","Q","R","S","T","U","V","W","X","Y","Z">>
Lowers == <<"a","b","c","d","e","f","g","h","i","j","k","l","m",
            "n","o","p","q","r","s","t","u","v","w","x","y","z">>
Digits == {"0","1","2","3","4","5","6","7","8","9"}

\* str.lower() on one character
lower_char(c) ==
  IF \E i \in 1..Len(Uppers) : Uppers[i] = c
  THEN Lowers[CHOOSE i \in 1..Len(Uppers) : Uppers[i] = c]
  ELSE c

\* str.lower()
lower(s) == [i \in 1..Len(s) |-> lower_char(s[i])]

\* str.startswith for a one-character prefix
startswith(s, c) == Len(s) >= 1 /\ s[1] = c

\* str.rfind for one character, as a 1-based index (0 when absent)
rfind(s, c) ==
  IF \E i \in 1..Len(s) : s[i] = c
  THEN CHOOSE i \in 1..Len(s) : s[i] = c /\ \A j \in (i+1)..Len(s) : s[j] # c
  ELSE 0

\* str.count for one character
count(s, c) == Cardinality({i \in 1..Len(s) : s[i] = c})

\* truthiness of an optional string: neither None nor empty
truthy(s) == s # None /\ s # <<>>

\* pathlib's PurePath.suffix of a file name: the last dot and what follows it,
\* unless that dot is the first or the last character
suffix(name) ==
  LET i == rfind(name, ".")
  IN IF 1 < i /\ i < Len(name) THEN SubSeq(name, i, Len(name)) ELSE <<>>

\* str.join
RECURSIVE join(_, _)
join(sep, items) ==
  IF Len(items) = 0 THEN <<>>
  ELSE IF Len(items) = 1 THEN items[1]
  ELSE items[1] \o sep \o join(sep, Tail(items))

----------------------------------------------------------------------------
(* The pure functions of the program *)

DEFAULT_IGNORES ==
  { <<"n","o","d","e","_","m","o","d","u","l","e","s">>,
    <<"v","e","n","d","o","r">>,
    <<".","g","i","t">>,
    <<"_","_","p","y","c","a","c","h","e","_","_">>,
    <<".","D","S","_","S","t","o","r","e">> }

chunk_size == 1024

\* A file on disk: its name, its bytes, and whether it can be stat'ed and opened.
\* kind "ok": a readable regular file; "unreadable": stat works, open raises
\* PermissionError; "broken": a dangling symlink, stat and open both raise.
can_stat(file) == file.kind # "broken"
can_open(file) == file.kind = "ok"

\* is_binary_file: a null byte among the first chunk_size bytes; True when the
\* file cannot be opened
is_binary_file(file) ==
  IF ~can_open(file) THEN TRUE
  ELSE \E i \in 1..Len(file.data) : i <= chunk_size /\ file.data[i] = NUL

\* should_ignore, on the tuple path.parts
should_ignore(parts, ignore_set, include_hidden) ==
  IF ~include_hidden
     /\ \E i \in 1..Len(parts) : parts[i] # <<".">> /\ startswith(parts[i], ".")
  THEN TRUE
  ELSE \E i \in 1..Len(parts) : parts[i] \in ignore_set

\* The regular expressions of the model are sequences of letters, digits, spaces,
\* "." (any character but a newline) and "(" (which opens a group; no pattern of
\* the model closes one, so a pattern with "(" does not compile: re.error).
re_compiles(pattern) == \A i \in 1..Len(pattern) : pattern[i] # "("

\* \w
is_word_char(c) ==
  \/ \E i \in 1..Len(Uppers) : Uppers[i] = c \/ Lowers[i] = c
  \/ c \in Digits
  \/ c = "_"

is_word_at(text, k) == k >= 1 /\ k <= Len(text) /\ is_word_char(text[k])

\* \b between text[k-1] and text[k]
word_boundary(text, k) == is_word_at(text, k - 1) # is_word_at(text, k)

\* the literal word matches text at k, ignoring case
literal_at(word, text, k) ==
  /\ k + Len(word) - 1 <= Len(text)
  /\ \A j \in 1..Len(word) : lower_char(text[k + j - 1]) = lower_char(word[j])

\* the (compiling) pattern matches text at k, ignoring case
pattern_at(pattern, text, k) ==
  /\ k + Len(pattern) - 1 <= Len(text)
  /\ \A j \in 1..Len(pattern) :
        IF pattern[j] = "." THEN text[k + j - 1] # NL
        ELSE lower_char(text[k + j - 1]) = lower_char(pattern[j])

\* matches_search raises re.error exactly when the pattern is compiled (regex
\* mode) and does not compile; re.escape makes the whole-word pattern compile
matches_search_raises(search, regex) == regex /\ ~re_compiles(search)

\* matches_search, when it does not raise
matches_search(content, search, regex, whole_word) ==
  IF regex
  THEN \E k \in 1..(Len(content) + 1) : pattern_at(search, content, k)
  ELSE IF whole_word
  THEN \E k \in 1..(Len(content) + 1) :
          /\ word_boundary(content, k)
          /\ literal_at(search, content, k)
          /\ word_boundary(content, k + Len(search))
  ELSE \E k \in 1..(Len(content) + 1) : literal_at(lower(search), lower(content), k)

\* --max-size is a float of megabytes; the model holds it as the fraction
\* num / den, or as no_max_size for None
no_max_size == [is_none |-> TRUE, num |-> 0, den |-> 1]

\* size_mb > max_size_mb, where size_mb = size_bytes / (1024 * 1024)
mutant_size_mb_exceeds(bytes, max_size_mb) ==
  bytes * max_size_mb.den >= max_size_mb.num * (1024 * 1024)

size_mb_exceeds(bytes, max_size_mb) ==
  bytes * max_size_mb.den > max_size_mb.num * (1024 * 1024)

\* The text that open(..., encoding='utf-8', errors='replace').read() returns:
\* a byte that is not valid utf-8 (BAD) becomes U+FFFD (REPL), and universal
\* newlines turn "\r\n" and "\r" into "\n"
BAD == "xFF"
REPL == "uFFFD"
CR == "\r"

RECURSIVE decode(_)
decode(data) ==
  IF Len(data) = 0 THEN <<>>
  ELSE IF data[1] = CR /\ Len(data) >= 2 /\ data[2] = NL THEN decode(Tail(data))
  ELSE IF data[1] = CR THEN <<NL>> \o decode(Tail(data))
  ELSE IF data[1] = BAD THEN <<REPL>> \o decode(Tail(data))
  ELSE <<data[1]>> \o decode(Tail(data))

\* file_path.suffix.lower() or '[no-ext]'
ext_of(name) ==
  IF lower(suffix(name)) # <<>> THEN lower(suffix(name))
  ELSE <<"[","n","o","-","e","x","t","]">>

----------------------------------------------------------------------------
(* The directory tree.  fs.entries lists the entries below the scanned        *)
(* directory: entry i lies in the directory fs.entries[i].parent (0 is the    *)
(* scanned directory itself), and the entries of one directory are listed by  *)
(* os.scandir in the order of their indices.                                  *)

MaxEntries == 3   \* entries (files and directories) below the scanned directory
MaxFiles == 2     \* files of the flat directories that the processing runs read

dir_entry(parent, name) ==
  [parent |-> parent, is_dir |-> TRUE, name |-> name, kind |-> "dir", data |-> <<>>]

file_entry(parent, file) ==
  [parent |-> parent, is_dir |-> FALSE, name |-> file.name, kind |-> file.kind,
   data |-> file.data]

\* the trees that add one entry to the tree t: parents do not decrease (so that
\* a tree has one numbering), a parent is a directory, names in a directory differ
Extensions(t, files, dir_names) ==
  LET last == IF Len(t) = 0 THEN 0 ELSE t[Len(t)].parent
      parents == {p \in {0} \cup {i \in 1..Len(t) : t[i].is_dir} : p >= last}
      new == { file_entry(p, f) : p \in parents, f \in files }
             \cup { dir_entry(p, n) : p \in parents, n \in dir_names }
      free(e) == \A i \in 1..Len(t) : t[i].parent = e.parent => t[i].name # e.name
  IN { Append(t, e) : e \in {x \in new : free(x)} }

\* the trees of at most n entries
RECURSIVE Trees(_, _, _)
Trees(n, files, dir_names) ==
  IF n = 0 THEN { <<>> }
  ELSE LET smaller == Trees(n - 1, files, dir_names)
       IN smaller \cup UNION { Extensions(t, files, dir_names) : t \in smaller }

\* path.parts of entry i (of the scanned directory, for i = 0)
RECURSIVE parts_of(_, _)
parts_of(tree, i) ==
  IF i = 0 THEN tree.root_parts
  ELSE Append(parts_of(tree, tree.entries[i].parent), tree.entries[i].name)

\* the entries of directory d, in listing order, that are directories / files
RECURSIVE listing(_, _, _, _)
listing(tree, d, want_dirs, from) ==
  IF from > Len(tree.entries) THEN <<>>
  ELSE IF tree.entries[from].parent = d /\ tree.entries[from].is_dir = want_dirs
  THEN <<from>> \o listing(tree, d, want_dirs, from + 1)
  ELSE listing(tree, d, want_dirs, from + 1)

\* names and files of the trees
n_src == <<"s","r","c">>
n_vendor == <<"v","e","n","d","o","r">>
n_hid == <<".","h","i","d">>
n_slash == <<"/">>
n_w == <<"w">>
n_cfg == <<".","c","f","g">>

f_a_txt == [name |-> <<"a",".","t","x","t">>, kind |-> "ok",
            data |-> <<"w","o","r","l","d",NL>>]
f_B_PY == [name |-> <<"B",".","P","Y">>, kind |-> "ok",
           data |-> <<"W","O","R"," ","x">>]
f_b_bin == [name |-> <<"b",".","b","i","n">>, kind |-> "ok",
            data |-> <<NUL,"w","o","r">>]
f_env == [name |-> <<".","e","n","v">>, kind |-> "ok",
          data |-> <<"x",CR,NL,BAD,NL,"y","y">>]
f_lnk == [name |-> <<"l","n","k">>, kind |-> "broken", data |-> <<>>]
f_u_txt == [name |-> <<"u",".","t","x","t">>, kind |-> "unreadable",
            data |-> <<"w","o","r">>]

----------------------------------------------------------------------------
(* What main derives from the arguments (lines 175-176, 198, 205) *)

ignore_set == DEFAULT_IGNORES \cup cfg.ignore

normalize_ext(e) == IF startswith(e, ".") THEN lower(e) ELSE <<".">> \o lower(e)

only_exts == { normalize_ext(e) : e \in cfg.ext }

copy_clipboard == cfg.copy /\ ~cfg.combine

include_hidden == ~cfg.no_hidden

----------------------------------------------------------------------------
(* The state machine *)

no_list == [is_none |-> TRUE, items |-> <<>>]
empty_list == [is_none |-> FALSE, items |-> <<>>]

accumulators ==
  [summary |-> summary, log |-> log, clipboard |-> clipboard, combined |-> combined]

InitWith(configs, trees) ==
  /\ cfg \in configs
  /\ fs \in trees
  /\ pc = "main"
  /\ stack = <<>>
  /\ visited = {}
  /\ all_files = <<>>
  /\ idx = 1
  /\ fpc = "stat"
  /\ size_bytes = 0
  /\ contents = <<>>
  /\ confirm = None
  /\ ops = <<>>
  /\ outcome = <<>>
  /\ summary = [files_read |-> 0, lines_read |-> 0, bytes_read |-> 0,
                extensions |-> <<>>]
  /\ combined = no_list
  /\ logger = "none"
  /\ log = <<>>
  /\ clipboard = <<>>
  /\ console = <<>>
  /\ exit_code = -1
  /\ interrupted_at = ""
  /\ before = [summary |-> summary, log |-> log, clipboard |-> clipboard,
               combined |-> combined]

\* main, lines 178-192: the scanned path must be a directory
CheckDirectory ==
  /\ pc = "main"
  /\ IF ~fs.is_dir
     THEN /\ console' = Append(console, [kind |-> "not_a_directory", file |-> 0])
          /\ exit_code' = 1
          /\ pc' = "done"
     ELSE /\ pc' = "enter"
          /\ UNCHANGED <<console, exit_code>>
  /\ UNCHANGED <<cfg, fs, stack, visited, all_files, idx, fpc, size_bytes, contents, confirm,
                 ops, before, outcome, summary, combined, logger, log, clipboard,
                 interrupted_at>>

\* traverse_and_read, lines 111-115: the combine buffer, the log file, the walk
EnterTraverse ==
  /\ pc = "enter"
  /\ combined' = IF cfg.combine THEN empty_list ELSE no_list
  /\ logger' = IF truthy(cfg.log) THEN "open" ELSE "none"
  /\ stack' = <<0>>
  /\ pc' = "walk"
  /\ UNCHANGED <<cfg, fs, visited, all_files, idx, fpc, size_bytes, contents, confirm, ops,
                 before, outcome, summary, log, clipboard, console, exit_code,
                 interrupted_at>>

\* the subdirectories of a listing that os.walk will descend into (line 116)
mutant_kept_dirs(dirs) ==
  dirs

kept_dirs(dirs) ==
  SelectSeq(dirs, LAMBDA d : ~should_ignore(parts_of(fs, d), ignore_set, include_hidden))

\* whether a listed file becomes a candidate (lines 118-123)
is_candidate(f) ==
  /\ ~should_ignore(parts_of(fs, f), ignore_set, include_hidden)
  /\ ~(only_exts # {} /\ lower(suffix(fs.entries[f].name)) \notin only_exts)

\* one iteration of the os.walk loop, lines 115-123: the directory on top of the
\* stack is yielded, its subdirectories are pruned, its files are filtered; when
\* the walk is exhausted the processing loop starts (line 125)
WalkDir ==
  /\ pc = "walk"
  /\ stack # <<>>
  /\ LET d == Head(stack)
         dirs == kept_dirs(listing(fs, d, TRUE, 1))
         files == SelectSeq(listing(fs, d, FALSE, 1), is_candidate)
     IN /\ visited' = visited \cup {d}
        /\ stack' = dirs \o Tail(stack)
        /\ all_files' = all_files \o files
        /\ pc' = IF stack' # <<>> THEN "walk"
                 ELSE IF all_files' # <<>> THEN "process"
                 ELSE "finalize"
  /\ UNCHANGED <<cfg, fs, idx, fpc, size_bytes, contents, confirm, ops, before, outcome,
                 summary, combined, logger, log, clipboard, console, exit_code,
                 interrupted_at>>

----------------------------------------------------------------------------
(* print_file_contents, for the candidate all_files[idx] *)

file == fs.entries[all_files[idx]]

\* what input() gives at the prompt of line 63: a typed line, or EOFError
EOFError == <<"EOFError">>
Inputs == { <<"y">>, <<"Y">>, <<"n">>, <<>>, EOFError }

\* print_file_contents returns: the loop of line 125 takes the next candidate, or
\* ends
Return(how) ==
  /\ outcome' = Append(outcome, how)
  /\ idx' = idx + 1
  /\ fpc' = "stat"
  /\ pc' = IF idx < Len(all_files) THEN "process" ELSE "finalize"

\* lines 104-105: an Exception raised in the try block is reported on the console
\* and print_file_contents returns
mutant_Except ==
  /\ outcome' = Append(outcome, "failed")
  /\ console' = Append(console, [kind |-> "traceback", file |-> idx])
  /\ exit_code' = 1
  /\ pc' = "done"
  /\ UNCHANGED <<idx, fpc>>

Except ==
  /\ Return("failed")
  /\ console' = Append(console, [kind |-> "failed_to_read", file |-> idx])
  /\ UNCHANGED exit_code

\* lines 65 and 69: the file is over the size limit, print_file_contents returns
mutant_SkipTooLarge ==
  /\ fpc' = "binary"
  /\ UNCHANGED <<pc, idx, outcome, console, exit_code>>

SkipTooLarge ==
  /\ Return("too_large")
  /\ UNCHANGED <<console, exit_code>>

\* lines 58-69: stat, and the size limit with its prompt
StatAndSizeCheck ==
  /\ pc = "process"
  /\ fpc = "stat"
  /\ before' = accumulators
  /\ IF ~can_stat(file)
     THEN /\ ops' = <<"stat">>
          /\ Except
          /\ confirm' = None
          /\ UNCHANGED size_bytes
     ELSE /\ size_bytes' = Len(file.data)
          /\ IF ~cfg.max_size.is_none /\ size_mb_exceeds(size_bytes', cfg.max_size)
             THEN IF cfg.interactive_large
                  THEN \E answer \in Inputs :
                         /\ ops' = <<"stat", "prompt">>
                         /\ IF answer = EOFError
                            THEN Except /\ confirm' = None
                            ELSE /\ confirm' = answer
                                 /\ IF lower(answer) # <<"y">>
                                    THEN SkipTooLarge
                                    ELSE /\ fpc' = "binary"
                                         /\ UNCHANGED <<pc, idx, outcome, console,
                                                        exit_code>>
                  ELSE /\ ops' = <<"stat">>
                       /\ SkipTooLarge
                       /\ confirm' = None
             ELSE /\ ops' = <<"stat">>
                  /\ fpc' = "binary"
                  /\ confirm' = None
                  /\ UNCHANGED <<pc, idx, outcome, console, exit_code>>
  /\ UNCHANGED <<cfg, fs, stack, visited, all_files, contents, summary, combined,
                 logger, log, clipboard, interrupted_at>>

\* lines 71-78: the binary check, then the dry run
BinaryAndDryRun ==
  /\ pc = "process"
  /\ fpc = "binary"
  /\ IF is_binary_file(file)
     THEN /\ ops' = Append(ops, "binary")
          /\ Return("binary")
          /\ UNCHANGED console
     ELSE IF cfg.dry_run
     THEN /\ ops' = ops \o <<"binary", "announce">>
          /\ Return("dry_run")
          /\ console' = Append(console, [kind |-> "would_read", file |-> idx])
     ELSE /\ ops' = Append(ops, "binary")
          /\ fpc' = "read"
          /\ UNCHANGED <<pc, idx, outcome, console>>
  /\ UNCHANGED <<cfg, fs, stack, visited, all_files, size_bytes, contents, confirm, before,
                 summary, combined, logger, log, clipboard, exit_code, interrupted_at>>

\* summary["extensions"][ext] = summary["extensions"].get(ext, 0) + 1
bump(extensions, ext) ==
  IF ext \in DOMAIN extensions
  THEN [extensions EXCEPT ![ext] = @ + 1]
  ELSE [e \in DOMAIN extensions \cup {ext} |->
          IF e = ext THEN 1 ELSE extensions[e]]

\* lines 85-90
count_file(text) ==
  [files_read |-> summary.files_read + 1,
   lines_read |-> summary.lines_read + count(text, NL),
   bytes_read |-> summary.bytes_read + size_bytes,
   extensions |-> bump(summary.extensions, ext_of(file.name))]

\* line 82: the search is given and the text does not match it
mutant_search_rejects(text) ==
  FALSE

search_rejects(text) ==
  truthy(cfg.search) /\ ~matches_search(text, cfg.search, cfg.regex, cfg.whole_word)

\* lines 80-93: open and read the file, apply the search, count and print it
ReadAndCount ==
  /\ pc = "process"
  /\ fpc = "read"
  /\ IF ~can_open(file)
     THEN /\ ops' = Append(ops, "open")
          /\ Except
          /\ UNCHANGED <<contents, summary>>
     ELSE /\ contents' = decode(file.data)
          /\ IF truthy(cfg.search) /\ matches_search_raises(cfg.search, cfg.regex)
             THEN /\ ops' = ops \o <<"open", "search">>
                  /\ Except
                  /\ UNCHANGED summary
             ELSE IF search_rejects(contents')
             THEN /\ ops' = ops \o <<"open", "search">>
                  /\ Return("no_match")
                  /\ UNCHANGED <<summary, console, exit_code>>
             ELSE /\ ops' = ops \o (IF truthy(cfg.search) THEN <<"open", "search">>
                                    ELSE <<"open">>) \o <<"count", "print">>
                  /\ summary' = count_file(contents')
                  /\ console' = Append(console, [kind |-> "contents", file |-> idx])
                  /\ fpc' = "log"
                  /\ UNCHANGED <<pc, idx, outcome, exit_code>>
  /\ UNCHANGED <<cfg, fs, stack, visited, all_files, size_bytes, confirm, before,
                 combined, logger, log, clipboard, interrupted_at>>

\* lines 95-96: the log file; the write may raise OSError (a full disk)
LogWrite ==
  /\ pc = "process"
  /\ fpc = "log"
  /\ IF logger = "open"
     THEN \E written \in BOOLEAN :
            IF written
            THEN /\ log' = Append(log, [file |-> all_files[idx], text |-> contents])
                 /\ ops' = Append(ops, "log")
                 /\ fpc' = "copy"
                 /\ UNCHANGED <<pc, idx, outcome, console, exit_code>>
            ELSE /\ ops' = Append(ops, "log")
                 /\ Except
                 /\ UNCHANGED log
     ELSE /\ fpc' = "copy"
          /\ UNCHANGED <<pc, idx, outcome, console, exit_code, log, ops>>
  /\ UNCHANGED <<cfg, fs, stack, visited, all_files, size_bytes, contents, confirm, before,
                 summary, combined, logger, clipboard, interrupted_at>>

\* lines 98-103: the per-file clipboard copy (pyperclip.copy may raise
\* PyperclipException when no clipboard is available), then the combine buffer
CopyAndCombine ==
  /\ pc = "process"
  /\ fpc = "copy"
  /\ \E copied \in BOOLEAN :
       IF copy_clipboard /\ ~copied
       THEN /\ ops' = Append(ops, "copy")
            /\ Except
            /\ UNCHANGED <<clipboard, combined>>
       ELSE /\ clipboard' = IF copy_clipboard THEN Append(clipboard, contents)
                            ELSE clipboard
            /\ combined' = IF ~combined.is_none
                           THEN [combined EXCEPT !.items = Append(@, contents)]
                           ELSE combined
            /\ ops' = ops \o (IF copy_clipboard THEN <<"copy">> ELSE <<>>)
                          \o (IF ~combined.is_none THEN <<"combine">> ELSE <<>>)
            /\ Return("processed")
            /\ UNCHANGED <<console, exit_code>>
  /\ UNCHANGED <<cfg, fs, stack, visited, all_files, size_bytes, contents, confirm, before,
                 summary, logger, log, interrupted_at>>

----------------------------------------------------------------------------
(* The end of traverse_and_read, and main around it *)

blank_line == <<NL, NL>>

\* "\n\n".join(combined)
mutant_combined_output(items) ==
  join(<<NL>>, items)

combined_output(items) ==
  join(blank_line, items)

\* lines 140-143: the combined payload goes to the clipboard; pyperclip.copy may
\* raise here too, and nothing catches it: a traceback, and exit status 1
Finalize ==
  /\ pc = "finalize"
  /\ IF cfg.combine /\ ~combined.is_none /\ combined.items # <<>>
     THEN \E copied \in BOOLEAN :
            IF copied
            THEN /\ clipboard' = Append(clipboard, combined_output(combined.items))
                 /\ pc' = "close"
                 /\ UNCHANGED <<console, exit_code>>
            ELSE /\ console' = Append(console, [kind |-> "traceback", file |-> 0])
                 /\ exit_code' = 1
                 /\ pc' = "done"
                 /\ UNCHANGED clipboard
     ELSE /\ pc' = "close"
          /\ UNCHANGED <<clipboard, console, exit_code>>
  /\ UNCHANGED <<cfg, fs, stack, visited, all_files, idx, fpc, size_bytes, contents, confirm,
                 ops, before, outcome, summary, combined, logger, log, interrupted_at>>

\* lines 145-146
CloseLogger ==
  /\ pc = "close"
  /\ logger' = IF logger = "open" THEN "closed" ELSE logger
  /\ pc' = "summary"
  /\ UNCHANGED <<cfg, fs, stack, visited, all_files, idx, fpc, size_bytes, contents, confirm,
                 ops, before, outcome, summary, combined, log, clipboard, console,
                 exit_code, interrupted_at>>

\* line 215 and print_summary, lines 148-155; the process then ends with status 0
PrintSummary ==
  /\ pc = "summary"
  /\ console' = Append(console, [kind |-> "summary", file |-> summary.files_read])
  /\ exit_code' = 0
  /\ pc' = "done"
  /\ UNCHANGED <<cfg, fs, stack, visited, all_files, idx, fpc, size_bytes, contents, confirm,
                 ops, before, outcome, summary, combined, logger, log, clipboard,
                 interrupted_at>>

\* where control is while traverse_and_read runs inside the try of lines 194-210
in_traverse == pc \in {"enter", "walk", "process", "finalize", "close"}

\* A KeyboardInterrupt arrives while traverse_and_read runs.  It is no Exception,
\* so line 104 does not catch it; it leaves traverse_and_read (past line 146) and
\* main catches it: lines 211-213
mutant_Interrupt ==
  /\ in_traverse
  /\ interrupted_at' = pc
  /\ IF pc = "process"
     THEN /\ Except
          /\ UNCHANGED logger
     ELSE /\ console' = Append(console, [kind |-> "interrupted", file |-> 0])
          /\ exit_code' = 1
          /\ pc' = "done"
          /\ UNCHANGED <<idx, fpc, outcome, logger>>
  /\ UNCHANGED <<cfg, fs, stack, visited, all_files, size_bytes, contents, confirm, ops,
                 before, summary, combined, log, clipboard>>

Interrupt ==
  /\ in_traverse
  /\ interrupted_at' = pc
  /\ console' = Append(console, [kind |-> "interrupted", file |-> 0])
  /\ exit_code' = 1
  /\ pc' = "done"
  /\ UNCHANGED <<cfg, fs, stack, visited, all_files, idx, fpc, size_bytes, contents, confirm,
                 ops, before, outcome, summary, combined, logger, log, clipboard>>

Next ==
  \/ CheckDirectory
  \/ EnterTraverse
  \/ WalkDir
  \/ StatAndSizeCheck
  \/ BinaryAndDryRun
  \/ ReadAndCount
  \/ LogWrite
  \/ CopyAndCombine
  \/ Finalize
  \/ CloseLogger
  \/ PrintSummary
  \/ Interrupt

----------------------------------------------------------------------------
(* The runs that are checked *)

s_wor == <<"w","o","r">>
s_w_r == <<"w",".","r">>
s_bad == <<"(">>
s_log == <<"o",".","l","o","g">>

\* 6 bytes, as a number of megabytes: the size of a.txt
six_bytes == [is_none |-> FALSE, num |-> 6, den |-> 1024 * 1024]

\* --search with --regex and --whole-word
Searches ==
  { [search |-> None, regex |-> FALSE, whole_word |-> FALSE],
    [search |-> <<>>, regex |-> TRUE, whole_word |-> FALSE],
    [search |-> s_wor, regex |-> FALSE, whole_word |-> FALSE],
    [search |-> s_wor, regex |-> FALSE, whole_word |-> TRUE],
    [search |-> s_w_r, regex |-> TRUE, whole_word |-> TRUE],
    [search |-> s_bad, regex |-> FALSE, whole_word |-> FALSE],
    [search |-> s_bad, regex |-> TRUE, whole_word |-> FALSE] }

Config(ign, ext, nh, m, i, s, d, cmb, cp, l) ==
  [ignore |-> ign, ext |-> ext, no_hidden |-> nh, max_size |-> m,
   interactive_large |-> i, search |-> s.search, regex |-> s.regex,
   whole_word |-> s.whole_word, dry_run |-> d, combine |-> cmb, copy |-> cp,
   log |-> l]

\* the runs that vary what print_file_contents depends on, over a flat directory
ProcessingConfigs ==
  { Config({}, {}, FALSE, m, i, s, d, cmb, cp, l) :
      m \in {no_max_size, six_bytes}, i \in BOOLEAN, s \in Searches, d \in BOOLEAN,
      cmb \in BOOLEAN, cp \in BOOLEAN, l \in {None, s_log} }

ProcessingFiles == {f_a_txt, f_B_PY, f_b_bin, f_env, f_lnk, f_u_txt}

ProcessingTrees ==
  { [is_dir |-> d, root_parts |-> <<n_slash, n_w>>, entries |-> t] :
      d \in BOOLEAN, t \in Trees(MaxFiles, ProcessingFiles, {}) }

Init == InitWith(ProcessingConfigs, ProcessingTrees)

Spec == Init /\ [][Next]_vars

\* the runs that vary what the walk depends on, over trees with subdirectories
WalkConfigs ==
  { Config(ign, ext, nh, no_max_size, FALSE,
           [search |-> None, regex |-> FALSE, whole_word |-> FALSE],
           FALSE, TRUE, FALSE, s_log) :
      ign \in { {}, {n_src} },
      ext \in { {}, {<<"P","Y">>}, {<<".","t","x","t">>} },
      nh \in BOOLEAN }

WalkFiles == {f_a_txt, f_B_PY, f_env}
WalkDirNames == {n_src, n_vendor, n_hid}

WalkTrees ==
  { [is_dir |-> TRUE, root_parts |-> r, entries |-> t] :
      r \in { <<n_slash, n_w>>, <<n_slash, n_cfg, n_w>> },
      t \in Trees(MaxEntries, WalkFiles, WalkDirNames) }

WalkInit == InitWith(WalkConfigs, WalkTrees)

WalkSpec == WalkInit /\ [][Next]_vars

\* the runs of the liveness check: every per-file condition occurs in them.  The
\* program is one thread that takes its next step whenever it has one: WF on Next.
LiveConfigs ==
  { Config({}, {}, FALSE, m, i, s, d, cmb, TRUE, s_log) :
      m \in {no_max_size, six_bytes}, i \in BOOLEAN,
      s \in { [search |-> None, regex |-> FALSE, whole_word |-> FALSE],
              [search |-> s_wor, regex |-> FALSE, whole_word |-> TRUE],
              [search |-> s_bad, regex |-> TRUE, whole_word |-> FALSE] },
      d \in BOOLEAN, cmb \in BOOLEAN }

LiveFiles == {f_a_txt, f_b_bin, f_env, f_lnk}

LiveTrees ==
  { [is_dir |-> d, root_parts |-> <<n_slash, n_w>>, entries |-> t] :
      d \in BOOLEAN, t \in Trees(MaxFiles, LiveFiles, {}) }

LiveInit == InitWith(LiveConfigs, LiveTrees)

LiveSpec == LiveInit /\ [][Next]_vars /\ WF_vars(Next)

----------------------------------------------------------------------------
(* The claims *)

\* the file of candidate k
entry(k) == fs.entries[all_files[k]]

\* the candidate that ops and confirm are about: the one in progress, or the one
\* print_file_contents has just returned from
cur == IF fpc = "stat" THEN idx - 1 ELSE idx

did(op) == \E i \in 1..Len(ops) : ops[i] = op

said(kind) == \E i \in 1..Len(console) : console[i].kind = kind

has_outcome(how) == \E i \in 1..Len(outcome) : outcome[i] = how

Skips == {"too_large", "binary", "dry_run", "no_match"}

invalid_regex == truthy(cfg.search) /\ cfg.regex /\ ~re_compiles(cfg.search)

\* C1: with --regex and a pattern that does not compile the run fails as a whole:
\* no candidate ends as a per-file failure, no per-file failure line is printed,
\* no summary is printed and the exit status is not 0.
C1_InvalidRegexFailsFast ==
  (fs.is_dir /\ invalid_regex) =>
     /\ ~has_outcome("failed")
     /\ ~said("failed_to_read")
     /\ ~said("summary")
     /\ exit_code # 0

\* C2: when the process has ended, however it ended, the log file is not open.
C2_LogSinkClosedAtExit ==
  exit_code # -1 => logger # "open"

\* C3: a step that changes the summary counts one file that was opened and decoded
\* and that matches the search, if there is one; and when print_file_contents
\* returns with a skip (too large, binary, dry run, no match) the summary is what
\* it was when print_file_contents was entered.
C3_OnlyReadAndMatchedFilesCounted ==
  [][ /\ summary' # summary =>
           /\ pc = "process"
           /\ can_open(file)
           /\ truthy(cfg.search) =>
                 /\ ~(cfg.regex /\ ~re_compiles(cfg.search))
                 /\ matches_search(decode(file.data), cfg.search, cfg.regex,
                                   cfg.whole_word)
           /\ summary'.files_read = summary.files_read + 1
           /\ outcome' = outcome
      /\ (Len(outcome') > Len(outcome) /\ outcome'[Len(outcome')] \in Skips) =>
           summary' = before'.summary
    ]_vars

C3_Witness ==
  /\ truthy(cfg.search)
  /\ summary.files_read = 1
  /\ has_outcome("no_match")
  /\ has_outcome("processed")

\* C4: when print_file_contents has returned after reporting a failure, the
\* summary, the log, the clipboard and the combine buffer are what they were when
\* it was entered.
C4_FailedFileLeavesNoTrace ==
  (fpc = "stat" /\ Len(outcome) >= 1 /\ outcome[Len(outcome)] = "failed") =>
     accumulators = before

AllHandled ==
  /\ pc \in {"finalize", "close", "summary", "done"}
  /\ interrupted_at = ""
  /\ Len(outcome) = Len(all_files)

\* C5: every candidate gets one outcome, in order; and a run over a directory that
\* is not interrupted reaches the end of the loop with an outcome for every
\* candidate.
C5_EveryCandidateHandled ==
  /\ [](Len(outcome) = idx - 1 /\ idx <= Len(all_files) + 1)
  /\ (fs.is_dir => (<>(interrupted_at # "") \/ <>AllHandled))

C5_Witness ==
  /\ pc = "finalize"
  /\ Len(all_files) = 2
  /\ outcome[1] = "failed"
  /\ outcome[2] \in Skips \cup {"processed"}

RECURSIVE processed_texts(_)
processed_texts(n) ==
  IF n = 0 THEN <<>>
  ELSE processed_texts(n - 1)
       \o (IF outcome[n] = "processed" THEN <<decode(entry(n).data)>> ELSE <<>>)

\* C6: with --combine the clipboard is written at most once, only after the last
\* candidate, only with a non-empty buffer, and with the texts of the processed
\* files joined by a blank line in candidate order; a run that gets past the
\* clipboard write has written it exactly when some file was processed.
C6_CombinedPayload ==
  cfg.combine =>
     /\ Len(clipboard) <= 1
     /\ clipboard # <<>> =>
          /\ pc \in {"close", "summary", "done"}
          /\ Len(outcome) = Len(all_files)
          /\ processed_texts(Len(outcome)) # <<>>
          /\ clipboard[1] = join(<<NL, NL>>, processed_texts(Len(outcome)))
     /\ (pc \in {"close", "summary"} \/ (pc = "done" /\ exit_code = 0)) =>
          (clipboard # <<>> <=> processed_texts(Len(outcome)) # <<>>)

C6_Witness ==
  /\ cfg.combine
  /\ cfg.copy
  /\ Len(clipboard) = 1
  /\ Len(combined.items) = 2
  /\ combined.items[1] # combined.items[2]

\* C7: after a KeyboardInterrupt during the walk or the processing loop the process
\* has ended with status 1, no summary was printed, no combined payload was
\* written, and nothing happens any more.
C7_InterruptAborts ==
  /\ [](interrupted_at \in {"walk", "process"} =>
          /\ pc = "done"
          /\ exit_code = 1
          /\ ~said("summary")
          /\ (cfg.combine => clipboard = <<>>))
  /\ [][interrupted_at \notin {"walk", "process"}]_vars

C7_Witness ==
  /\ interrupted_at = "process"
  /\ cfg.combine
  /\ combined.items # <<>>
  /\ summary.files_read >= 1
  /\ idx <= Len(all_files)

over_limit(f) ==
  /\ ~cfg.max_size.is_none
  /\ Len(f.data) * cfg.max_size.den > cfg.max_size.num * 1048576

declined == confirm # None /\ confirm \notin { <<"y">>, <<"Y">> }

\* C8: a file that could be stat'ed is skipped as too large exactly when a limit is
\* set, its size is strictly over the limit, and the run is not interactive or
\* the prompt was answered with something other than y.
C8_SkippedIffOverLimit ==
  (ops # <<>> /\ can_stat(entry(cur))) =>
     ( (fpc = "stat" /\ outcome[cur] = "too_large")
       <=> (over_limit(entry(cur)) /\ (~cfg.interactive_large \/ declined)) )

C8_Witness ==
  /\ outcome = <<"too_large", "processed">>
  /\ cfg.interactive_large
  /\ ~cfg.max_size.is_none
  /\ Len(entry(1).data) * cfg.max_size.den > cfg.max_size.num * 1048576
  /\ Len(entry(2).data) * cfg.max_size.den = cfg.max_size.num * 1048576

rank(op) ==
  CASE op = "stat" -> 1
    [] op = "prompt" -> 2
    [] op = "binary" -> 3
    [] op = "announce" -> 4
    [] op = "open" -> 5
    [] op = "search" -> 6
    [] op = "count" -> 7
    [] op = "print" -> 8
    [] op = "log" -> 9
    [] op = "copy" -> 10
    [] op = "combine" -> 11

\* C9: what is done to a candidate is done in the order stat, prompt, binary check,
\* dry-run announcement, open, search, count; a file rejected by the size limit is
\* neither checked for binary content nor opened nor searched, a binary file is
\* neither opened nor searched, and a dry run opens nothing.
C9_ChecksInOrder ==
  ops # <<>> =>
     /\ ops[1] = "stat"
     /\ \A i \in 1..(Len(ops) - 1) : rank(ops[i]) < rank(ops[i + 1])
     /\ did("open") => did("binary")
     /\ did("search") => did("open")
     /\ did("count") => (did("open") /\ (truthy(cfg.search) => did("search")))
     /\ (can_stat(entry(cur)) /\ over_limit(entry(cur))
         /\ (~cfg.interactive_large \/ declined)) =>
           (~did("binary") /\ ~did("open") /\ ~did("search"))
     /\ (did("binary") /\ is_binary_file(entry(cur))) =>
           (~did("open") /\ ~did("search"))
     /\ cfg.dry_run => (~did("open") /\ ~did("search"))

C9_Witness ==
  /\ outcome = <<"too_large", "binary">>
  /\ truthy(cfg.search)
  /\ ops = <<"stat", "binary">>

RECURSIVE dirs_above(_)
dirs_above(i) ==
  IF fs.entries[i].parent = 0 THEN {}
  ELSE {fs.entries[i].parent} \cup dirs_above(fs.entries[i].parent)

ignored(i) == should_ignore(parts_of(fs, i), ignore_set, include_hidden)

\* C10: no directory the walk yields, other than the scanned one, is ignored; every
\* candidate is a file found in a yielded directory, is not ignored, has no
\* ignored directory above it, and has an extension of the filter if there is one.
C10_IgnoredSubtreesNeverVisited ==
  /\ \A d \in visited \ {0} : fs.entries[d].is_dir /\ ~ignored(d)
  /\ \A k \in 1..Len(all_files) :
        /\ ~entry(k).is_dir
        /\ entry(k).parent \in visited
        /\ ~ignored(all_files[k])
        /\ \A d \in dirs_above(all_files[k]) : ~ignored(d) /\ d \in visited
        /\ only_exts # {} => lower(suffix(entry(k).name)) \in only_exts

C10_Witness ==
  /\ pc = "process"
  /\ only_exts # {}
  /\ \E d \in 1..Len(fs.entries) :
        /\ fs.entries[d].is_dir
        /\ ignored(d)
        /\ d \notin visited
        /\ \E f \in 1..Len(fs.entries) :
              /\ fs.entries[f].parent = d
              /\ ~fs.entries[f].is_dir
              /\ lower(suffix(fs.entries[f].name)) \in only_exts
  /\ all_files # <<>>

====
